---- MODULE Spec2Model ----
(***************************************************************************)
(* The chat turn of the Symphonize chat backend: POST /chat/stream saves   *)
(* the user message, opens a streaming request to the model server, relays *)
(* the newline-delimited JSON reply to the browser as server-sent events   *)
(* and saves the assistant message.                                        *)
(*                                                                         *)
(* Text is a sequence of one-character strings.  The model server's JSON   *)
(* objects are written in a reduced alphabet:                              *)
(*    "{" ... "}"   an object                                              *)
(*    "a", "b"      a character of message.content                         *)
(*    "!"           "done": true                                           *)
(*    "e"           an "error" member (the body of an error response)      *)
(*    " "           white space,   "LF"  the line terminator               *)
(* so  { a b }  is {"message":{"content":"ab"},"done":false}  and  { ! }   *)
(* is {"done":true}.                                                       *)
(***************************************************************************)
EXTENDS Integers, Sequences, FiniteSets, TLC

\* ---------------------------------------------------------------- bounds
\* lines the model server sends in one reply
MaxLines == 3
\* chat turns submitted in one run
MaxTurns == 2
\* largest number of bytes one network read returns
MaxRead == 5
\* files uploaded with one request
MaxFiles == 2
\* the age of a conversation, in days, up to which time is followed
MaxAge == 2
\* requests of apiClient in one run
MaxRequests == 3

\* --------------------------------------------------------------- domains
Handlers == {"h1", "h2"}
\* the request handlers serving one browser session, which submits its
\* turns one after the other
Session == {"h1"}
Convs == {"c1", "c2"}
Models == {"m1", "m2"}
Texts == {<<"q">>}
Users == {"u1", "u2"}

LF == "LF"
ContentChars == {"a", "b"}
MemberChars == ContentChars \cup {"!", "e"}

\* the lines a model server can put on the wire
LineMenu ==
    { <<"{", "a", "}">>, <<"{", "b", "}">>, <<"{", "}">>,
      <<"{", "!", "}">>, <<"{", "a", "!", "}">>,
      <<"{", "e", "}">>, <<"{", "a">>, << >>, <<" ">> }

\* the lines of the replies in a session of several turns: a fragment, the
\* completion flag, a malformed line
SessionMenu == { <<"{", "a", "}">>, <<"{", "!", "}">>, <<"{", "a">> }

VARIABLES
    messages,    \* the messages table, in insertion order
    conversations, \* the conversations table: id -> row
    users,       \* the users table: the ids of its rows
    nextTurn,    \* the number of the next turn to arrive
    dispatched,  \* the model requests opened so far: <<[turn, conv]>>
    hd,          \* hd[h]: the locals of request handler h
    client,      \* the chat page in the browser: ChatInterface, ChatInput
    calls,       \* calls[n]: the n-th call of sendMessageStream
    sidebar,     \* the conversation list of the Sidebar
    localStorage, \* the browser's localStorage: key -> value
    requests     \* the requests of apiClient: issued, awaiting a response

vars == <<messages, conversations, users, nextTurn, dispatched, hd, client,
          calls, sidebar, localStorage, requests>>

\* the tables and the request handlers
backend == <<messages, conversations, users, nextTurn, dispatched, hd>>
\* the browser
page == <<client, calls, sidebar, localStorage, requests>>

\* ------------------------------------------------------------ the store
Row(conv, role, content, model, turn) ==
    [conv |-> conv, role |-> role, content |-> content, model |-> model,
     turn |-> turn]

\* a store that lists the newest message first
SaveMessageNewestFirst(rows, conv, role, content, model, turn) ==
    <<Row(conv, role, content, model, turn)>> \o rows

\* a store that keeps one message per conversation and role, the newest
SaveMessageUpsert(rows, conv, role, content, model, turn) ==
    LET same == {i \in DOMAIN rows :
                    rows[i].conv = conv /\ rows[i].role = role}
    IN  IF same = {} THEN Append(rows, Row(conv, role, content, model, turn))
        ELSE [rows EXCEPT ![CHOOSE i \in same : \A j \in same : j <= i] =
                  Row(conv, role, content, model, turn)]

\* supabase.table("messages").insert({...}).execute()
SaveMessage(rows, conv, role, content, model, turn) ==
    Append(rows, Row(conv, role, content, model, turn))

\* -------------------------------------------- the conversations table
\* SUBSTRING(... FROM 1 FOR 50)
TitleLength == 50
\* title VARCHAR(500) DEFAULT 'New Conversation'
DefaultTitle ==
    <<"N", "e", "w", " ", "C", "o", "n", "v", "e", "r", "s", "a", "t", "i",
      "o", "n">>
Ellipsis == <<".", ".", ".">>

\* a row of the conversations table; age is the time since created_at
Conversation(user_id, title) ==
    [user_id |-> user_id, title |-> title, age |-> 0]

\* SUBSTRING(s FROM 1 FOR n)
Substring(s, n) == SubSeq(s, 1, IF Len(s) < n THEN Len(s) ELSE n)

\* a trigger that overwrites whatever title the conversation has
AutoTitleOverwrites(convs, rows, new) ==
    IF /\ ~\E i \in DOMAIN rows : rows[i].conv = new.conv
       /\ new.role = "user" /\ new.conv \in DOMAIN convs
    THEN [convs EXCEPT ![new.conv].title =
              IF Len(new.content) > TitleLength
              THEN Substring(new.content, TitleLength) \o Ellipsis
              ELSE Substring(new.content, TitleLength)]
    ELSE convs

\* the trigger AFTER INSERT ON messages: the conversations table after the
\* row `new` has joined the rows `rows`
AutoGenerateConversationTitle(convs, rows, new) ==
    IF ~\E i \in DOMAIN rows : rows[i].conv = new.conv
    THEN IF new.role = "user"
         THEN LET first_message == Substring(new.content, TitleLength)
                  generated_title ==
                      IF Len(new.content) > TitleLength
                      THEN first_message \o Ellipsis
                      ELSE first_message
              IN  [c \in DOMAIN convs |->
                      IF c = new.conv /\ convs[c].title = DefaultTitle
                      THEN [convs[c] EXCEPT !.title = generated_title]
                      ELSE convs[c]]
         ELSE convs
    ELSE convs

\* conversations after the insert of a message into the stored messages
Titled(conv, role, content) ==
    AutoGenerateConversationTitle(conversations, messages,
                                  Row(conv, role, content, "none", 0))

\* a messages table whose rows outlive their conversation
NoCascade(rows, convs) == rows

\* conversation_id ... REFERENCES conversations(id) ON DELETE CASCADE: the
\* rows left when convs are the conversations left
OnDeleteCascade(rows, convs) ==
    LET Kept(row) == row.conv \in DOMAIN convs
    IN  SelectSeq(rows, Kept)

\* the table without the rows of `gone`
Remaining(convs, gone) == [c \in DOMAIN convs \ gone |-> convs[c]]

\* ------------------------------------------------------- the SSE events
ContentEvent(c) == [type |-> "content", content |-> c]
DoneEvent == [type |-> "done", content |-> << >>]
ErrorEvent == [type |-> "error", content |-> << >>]

\* ------------------------------------------------------------- json.loads
RECURSIVE StripLeft(_)
StripLeft(s) ==
    IF s # << >> /\ Head(s) = " " THEN StripLeft(Tail(s)) ELSE s

RECURSIVE StripRight(_)
StripRight(s) ==
    IF s # << >> /\ s[Len(s)] = " "
    THEN StripRight(SubSeq(s, 1, Len(s) - 1))
    ELSE s

Strip(s) == StripRight(StripLeft(s))

IsContentChar(c) == c \in ContentChars

\* json.loads(line): the parsed object, or ok = FALSE where it raises
JsonLoads(line) ==
    LET s == Strip(line)
        n == Len(s)
        wellFormed == /\ n >= 2
                      /\ s[1] = "{"
                      /\ s[n] = "}"
                      /\ \A i \in 2..(n - 1) : s[i] \in MemberChars
        inner == IF wellFormed THEN SubSeq(s, 2, n - 1) ELSE << >>
    IN  [ok |-> wellFormed,
         done |-> \E i \in 1..Len(inner) : inner[i] = "!",
         error |-> \E i \in 1..Len(inner) : inner[i] = "e",
         content |-> SelectSeq(inner, IsContentChar)]

\* ------------------------------------------------- response.aiter_lines()
\* the line decoder: the lines completed by `bytes` after the unfinished
\* line `cur`, and the unfinished rest
RECURSIVE Split(_, _, _)
Split(bytes, cur, acc) ==
    IF bytes = << >> THEN [lines |-> acc, rest |-> cur]
    ELSE IF Head(bytes) = LF
         THEN Split(Tail(bytes), << >>, Append(acc, cur))
         ELSE Split(Tail(bytes), Append(cur, Head(bytes)), acc)

\* a decoder that takes every read to begin a line
DecodeUnbuffered(buf, chunk) ==
    LET d == Split(chunk, << >>, << >>)
    IN  IF buf # << >> /\ d.lines # << >>
        THEN [lines |-> <<buf>> \o d.lines, rest |-> d.rest]
        ELSE [lines |-> d.lines, rest |-> buf \o d.rest]

\* one network read `chunk` arriving with `buf` buffered
Decode(buf, chunk) == Split(chunk, buf, << >>)

\* the end of the body: the buffered rest is the last line
Flush(buf) == IF buf = << >> THEN << >> ELSE <<buf>>

\* ---------------------------------------------- generate_response_stream
\* a loop that does not look at the completion flag
LoopBodyNoBreak(line) ==
    LET chunk == JsonLoads(line)
    IN  IF ~chunk.ok THEN [kind |-> "raise", content |-> << >>]
        ELSE IF chunk.content # << >>
             THEN [kind |-> "yield", content |-> chunk.content]
             ELSE [kind |-> "skip", content |-> << >>]

\* one iteration of the loop over the lines
LoopBody(line) ==
    LET chunk == JsonLoads(line)
    IN  IF ~chunk.ok THEN [kind |-> "raise", content |-> << >>]
        ELSE IF chunk.done THEN [kind |-> "break", content |-> << >>]
        ELSE IF chunk.content # << >>
             THEN [kind |-> "yield", content |-> chunk.content]
             ELSE [kind |-> "skip", content |-> << >>]

\* a relay that adds a fragment to the event before it, when there is one
ForwardCoalesced(st, c) ==
    LET n == Len(st.events)
    IN  [st EXCEPT
            !.events = IF n = 0 THEN <<ContentEvent(c)>>
                       ELSE [@ EXCEPT ![n] = ContentEvent(@.content \o c)],
            !.full = @ \o c]

\* a relay that keeps the last fragment in place of the full response
ForwardKeepLast(st, c) ==
    [st EXCEPT !.events = Append(@, ContentEvent(c)), !.full = c]

\* the endpoint takes a yielded fragment: one SSE event, and the fragment
\* joins the full response
Forward(st, c) ==
    [st EXCEPT !.events = Append(@, ContentEvent(c)), !.full = @ \o c]

\* the loop over the lines one read completes; st.out is "more" while the
\* loop goes on, "break" after the completion flag, "raise" after an
\* exception
RECURSIVE RunLines(_, _)
RunLines(st, lines) ==
    IF lines = << >> \/ st.out # "more" THEN st
    ELSE LET r == LoopBody(Head(lines))
             seen == [st EXCEPT !.arrived = Append(@, Head(lines))]
             st1 == IF r.kind = "yield" THEN Forward(seen, r.content)
                    ELSE IF r.kind = "skip" THEN seen
                    ELSE [seen EXCEPT !.out = r.kind]
         IN  RunLines(st1, Tail(lines))

\* ---------------------------------------------------------- file_service
\* an uploaded file is [type, size, w, h]: its declared media type, its
\* size in bytes and, for an image, its width and height in pixels
MinImageSide == 50
MaxImageSide == 4000
MaxFileBytes == 10 * 1024 * 1024

ImageTypes == {"image/png", "image/jpeg", "image/jpg", "image/webp"}
ValidTypes ==
    {"application/pdf", "text/plain",
     "application/vnd.openxmlformats-officedocument.wordprocessingml.document"}
    \cup ImageTypes

\* the validation of one file: its type and its size
ValidFile(file) == file.type \in ValidTypes /\ file.size <= MaxFileBytes

FileError(error) ==
    [ok |-> FALSE, kind |-> "error", error |-> error, w |-> 0, h |-> 0]

\* Image.thumbnail: the width for height y that keeps the aspect w : h,
\* the nearer of the two integers around y * w / h and at least 1
RoundAspectX(w, h, y) ==
    LET f == (y * w) \div h
        c == IF (y * w) % h = 0 THEN f ELSE f + 1
        n == IF (y * w) - (f * h) <= (c * h) - (y * w) THEN f ELSE c
    IN  IF n < 1 THEN 1 ELSE n

\* Image.thumbnail: the height for width x that keeps the aspect w : h
RoundAspectY(w, h, x) ==
    LET f == (x * h) \div w
        c == IF (x * h) % w = 0 THEN f ELSE f + 1
        n == IF f = 0 THEN f
             ELSE IF ((x * h) - (w * f)) * c <= ((w * c) - (x * h)) * f
                  THEN f ELSE c
    IN  IF n < 1 THEN 1 ELSE n

\* img.thumbnail((x, y)): the image is made to fit the box x by y, its
\* aspect kept; an image that fits is left as it is
Thumbnail(w, h, x, y) ==
    IF x >= w /\ y >= h THEN <<w, h>>
    ELSE IF x * h >= w * y THEN <<RoundAspectX(w, h, y), y>>
    ELSE <<x, RoundAspectY(w, h, x)>>

\* a conversion that resizes only an image too wide
ConvertImageWidthOnly(file) ==
    IF file.w < MinImageSide \/ file.h < MinImageSide
    THEN FileError("Image too small")
    ELSE LET size == IF file.w > MaxImageSide
                     THEN <<MaxImageSide, file.h>>
                     ELSE <<file.w, file.h>>
         IN  [ok |-> TRUE, kind |-> "image", error |-> "none",
              w |-> size[1], h |-> size[2]]

\* convert_image_to_base64: the check of the size, the resize, the JPEG
ConvertImageToBase64(file) ==
    IF file.w < MinImageSide \/ file.h < MinImageSide
    THEN FileError("Image too small")
    ELSE LET size == IF file.w > MaxImageSide \/ file.h > MaxImageSide
                     THEN Thumbnail(file.w, file.h,
                                    MaxImageSide, MaxImageSide)
                     ELSE <<file.w, file.h>>
         IN  [ok |-> TRUE, kind |-> "image", error |-> "none",
              w |-> size[1], h |-> size[2]]

\* one file: validated, then its text extracted or its image converted
NormalizeFile(file) ==
    IF file.type \notin ValidTypes THEN FileError("type")
    ELSE IF file.size > MaxFileBytes THEN FileError("size")
    ELSE IF file.type \in ImageTypes THEN ConvertImageToBase64(file)
    ELSE [ok |-> TRUE, kind |-> "text", error |-> "none", w |-> 0, h |-> 0]

\* a normalizer that gives up on the upload at the first file it rejects
NormalizeAbortOnError(files) ==
    [i \in 1..Len(files) |->
        IF \E j \in 1..i : ~NormalizeFile(files[j]).ok
        THEN IF NormalizeFile(files[i]).ok THEN FileError("aborted")
             ELSE NormalizeFile(files[i])
        ELSE NormalizeFile(files[i])]

\* the files of one request, each on its own
Normalize(files) == [i \in 1..Len(files) |-> NormalizeFile(files[i])]

IsImagePayload(r) == r.ok /\ r.kind = "image"

\* the image payloads of a normalized upload
UploadedImages(normalized) == SelectSeq(normalized, IsImagePayload)

\* ------------------------------------------------------- context_manager
SystemPrompt == <<"s">>

IsOfConv(conv, row) == row.conv = conv

\* get_conversation_messages: the rows of a conversation, oldest first
GetConversationMessages(conv) ==
    SelectSeq(messages, LAMBDA row : IsOfConv(conv, row))

\* prepare_context: the system entry, then the messages as they are.  An
\* entry keeps the number of the turn of its row (0 for the system entry),
\* which the program does not have.
PrepareContext(msgs, system_prompt) ==
    <<[role |-> "system", content |-> system_prompt, turn |-> 0,
       images |-> << >>]>> \o
    [i \in 1..Len(msgs) |->
        [role |-> msgs[i].role, content |-> msgs[i].content,
         turn |-> msgs[i].turn, images |-> << >>]]

\* the endpoint hands the images of the upload over with the last message
WithUpload(context, imgs) ==
    [context EXCEPT ![Len(context)].images = imgs]

\* _format_messages_for_ollama: the messages without their images, and
\* the images by the index of their message
FormatMessagesForOllama(msgs) ==
    [formatted_messages |->
         [i \in 1..Len(msgs) |-> [msgs[i] EXCEPT !.images = << >>]],
     images_by_message |->
         [i \in {j \in 1..Len(msgs) : msgs[j].images # << >>} |->
             msgs[i].images]]

\* payload["messages"]: the images are added to the last message
Payload(msgs) ==
    LET f == FormatMessagesForOllama(msgs)
        last_idx == Len(f.formatted_messages)
    IN  [i \in 1..last_idx |->
            IF i = last_idx /\ last_idx \in DOMAIN f.images_by_message
            THEN [f.formatted_messages[i] EXCEPT
                     !.images = f.images_by_message[last_idx]]
            ELSE f.formatted_messages[i]]

\* ------------------------------------------------------------ handlers
IdleHandler ==
    [pc |-> "Idle", path |-> <<"Idle">>, turn |-> 0, conv |-> "none",
     model |-> "none", text |-> << >>,
     wire |-> << >>, closed |-> FALSE, nsent |-> 0, upEnd |-> "open",
     rcvd |-> << >>, buf |-> << >>, spanned |-> FALSE,
     arrived |-> << >>, events |-> << >>, full |-> << >>, out |-> "more",
     files |-> << >>, normalized |-> << >>, submission |-> << >>]

\* the relay state of a handler position
RelayState(pc) ==
    IF pc \in {"Idle", "Processed", "Saved", "Aborted"} THEN "Idle" ELSE pc

\* the handler moves to position pc; path keeps the relay states entered
Goto(rec, pc) ==
    [rec EXCEPT !.pc = pc,
                !.path = IF RelayState(pc) = RelayState(rec.pc) THEN @
                         ELSE Append(@, RelayState(pc))]

\* a handler that ends without closing its connection to the model server
CloseLeaking(rec, pc) == Goto(rec, pc)

\* the handler ends in position pc: the connection to the model server is
\* closed, and what the server had written and nobody read is dropped
Close(rec, pc) ==
    [Goto(rec, pc) EXCEPT !.wire = << >>, !.closed = TRUE, !.nsent = 0,
                          !.buf = << >>]

\* nothing submitted, nothing posted
NoTurn == [text |-> << >>, files |-> << >>]
\* no FormData sent
NoPost == [conversationId |-> "none", text |-> << >>, files |-> << >>]

\* the chat page as it is loaded: an open conversation, an empty input.
\* Of the nsubmitted calls of onSend by handleSubmit, submitted is the
\* last and posted says whether a POST /chat/stream went out for it; of
\* the nposts POSTs, post is the body of the last.  messages is the list
\* ChatInterface shows, each entry with the conversation it was made for;
\* loading is TRUE from a change of conversationId to the arrival of the
\* history of that conversation.
InitClient ==
    [conversationId |-> "c1", message |-> << >>, attachedFiles |-> << >>,
     isStreaming |-> FALSE,
     nsubmitted |-> 0, submitted |-> NoTurn, posted |-> FALSE,
     nposts |-> 0, post |-> NoPost,
     messages |-> << >>, streamingMessage |-> << >>, loading |-> FALSE,
     justTranscribed |-> FALSE]

\* no request of apiClient made yet; last is the kind and the status of
\* the response handled last, and whether a token was stored when it came
NoRequests ==
    [issued |-> 0, pending |-> {},
     last |-> [kind |-> "none", status |-> 0, had |-> FALSE]]

\* the tables as a session finds them: the users, and the conversations the
\* page has created for its user, no message in them yet
InitConversations == [c \in Convs |-> Conversation("u1", DefaultTitle)]

Init ==
    /\ messages = << >>
    /\ conversations = InitConversations
    /\ users = Users
    /\ calls = << >>
    /\ sidebar = <<"c1", "c2">>
    /\ localStorage = << >>
    /\ requests = NoRequests
    /\ nextTurn = 1
    /\ dispatched = << >>
    /\ hd = [h \in Handlers |-> IdleHandler]
    /\ client = InitClient

\* POST /chat/stream arrives with files: the files are processed first
ProcessFiles(h, files) ==
    /\ hd[h].pc = "Idle"
    /\ nextTurn <= MaxTurns
    /\ files # << >>
    /\ hd' = [hd EXCEPT ![h] =
                 Goto([@ EXCEPT !.files = files,
                                !.normalized = Normalize(files)],
                      "Processed")]
    /\ UNCHANGED <<messages, conversations, users, nextTurn, dispatched, page>>

\* the messages of the model request of handler h: the history of the
\* conversation as stored now, in context, with the images of the upload
Submission(h) ==
    Payload(WithUpload(
        PrepareContext(GetConversationMessages(hd[h].conv), SystemPrompt),
        UploadedImages(hd[h].normalized)))

\* a handler that goes on to the model without saving the user message
SaveUserSkipped(h, conv, text, model) ==
    /\ hd[h].pc \in {"Idle", "Processed"}
    /\ nextTurn <= MaxTurns
    /\ nextTurn' = nextTurn + 1
    /\ hd' = [hd EXCEPT ![h] =
                 Goto([hd[h] EXCEPT !.turn = nextTurn, !.conv = conv,
                                    !.model = model, !.text = text],
                      "Saved")]
    /\ UNCHANGED <<messages, conversations, users, dispatched, page>>

\* POST /chat/stream arrives and the user message is saved
SaveUser(h, conv, text, model) ==
    /\ hd[h].pc \in {"Idle", "Processed"}
    /\ nextTurn <= MaxTurns
    /\ messages' = SaveMessage(messages, conv, "user", text, "none", nextTurn)
    /\ conversations' = Titled(conv, "user", text)
    /\ nextTurn' = nextTurn + 1
    /\ hd' = [hd EXCEPT ![h] =
                 Goto([hd[h] EXCEPT !.turn = nextTurn, !.conv = conv,
                                    !.model = model, !.text = text],
                      "Saved")]
    /\ UNCHANGED <<users, dispatched, page>>

\* POST /chat/stream arrives and the datastore refuses the user message:
\* the request fails, no stream is opened
SaveUserFails(h, conv, text, model) ==
    /\ hd[h].pc \in {"Idle", "Processed"}
    /\ nextTurn <= MaxTurns
    /\ nextTurn' = nextTurn + 1
    /\ hd' = [hd EXCEPT ![h] =
                 Goto([hd[h] EXCEPT !.turn = nextTurn, !.conv = conv,
                                    !.model = model, !.text = text],
                      "Aborted")]
    /\ UNCHANGED <<messages, conversations, users, dispatched, page>>

\* a relay that reads the body without waiting for the response to begin
DispatchStreaming(h) ==
    /\ hd[h].pc = "Saved"
    /\ dispatched' = Append(dispatched,
                            [turn |-> hd[h].turn, conv |-> hd[h].conv])
    /\ hd' = [hd EXCEPT ![h] =
                 Goto([@ EXCEPT !.submission = Submission(h)], "Streaming")]
    /\ UNCHANGED <<messages, conversations, users, nextTurn, page>>

\* an endpoint that goes on to the model after the save has failed
DispatchAnyway(h) ==
    /\ hd[h].pc \in {"Saved", "Aborted"}
    /\ dispatched' = Append(dispatched,
                            [turn |-> hd[h].turn, conv |-> hd[h].conv])
    /\ hd' = [hd EXCEPT ![h] =
                 Goto([@ EXCEPT !.submission = Submission(h)],
                      "AwaitingFirstByte")]
    /\ UNCHANGED <<messages, conversations, users, nextTurn, page>>

\* client.stream("POST", .../api/chat): the model request is opened
Dispatch(h) ==
    /\ hd[h].pc = "Saved"
    /\ dispatched' = Append(dispatched,
                            [turn |-> hd[h].turn, conv |-> hd[h].conv])
    /\ hd' = [hd EXCEPT ![h] =
                 Goto([@ EXCEPT !.submission = Submission(h)],
                      "AwaitingFirstByte")]
    /\ UNCHANGED <<messages, conversations, users, nextTurn, page>>

\* an endpoint whose handlers collect the reply in one shared buffer
CompleteShared(h, st) ==
    /\ messages' = SaveMessage(messages, hd[h].conv, "assistant",
                               hd[CHOOSE o \in Handlers : o # h].full
                                   \o st.full,
                               hd[h].model, hd[h].turn)
    /\ conversations' = Titled(hd[h].conv, "assistant", st.full)
    /\ UNCHANGED users
    /\ hd' = [hd EXCEPT ![h] =
                 Close([st EXCEPT !.events = Append(@, DoneEvent)],
                       "Completed")]

\* an endpoint that saves the assistant message and sends no done event
CompleteSilent(h, st) ==
    /\ messages' = SaveMessage(messages, hd[h].conv, "assistant", st.full,
                               hd[h].model, hd[h].turn)
    /\ conversations' = Titled(hd[h].conv, "assistant", st.full)
    /\ UNCHANGED users
    /\ hd' = [hd EXCEPT ![h] = Close(st, "Completed")]

\* the generator ended (completion flag, or end of the body): the
\* assistant message is saved and the done event sent
Complete(h, st) ==
    /\ messages' = SaveMessage(messages, hd[h].conv, "assistant", st.full,
                               hd[h].model, hd[h].turn)
    /\ conversations' = Titled(hd[h].conv, "assistant", st.full)
    /\ UNCHANGED users
    /\ hd' = [hd EXCEPT ![h] =
                 Close([st EXCEPT !.events = Append(@, DoneEvent)],
                       "Completed")]

\* an exception out of the generator: the error event, nothing saved
Fail(h, st) ==
    /\ hd' = [hd EXCEPT ![h] =
                 Close([st EXCEPT !.events = Append(@, ErrorEvent)], "Failed")]
    /\ UNCHANGED <<messages, conversations, users>>

\* a relay that tries the model server again when it cannot be reached
ConnectFailRetry(h) ==
    /\ hd[h].pc = "AwaitingFirstByte"
    /\ hd' = [hd EXCEPT ![h] = Goto(@, "Saved")]
    /\ UNCHANGED <<messages, conversations, users, nextTurn, dispatched, page>>

\* the model server cannot be reached
ConnectFail(h) ==
    /\ hd[h].pc = "AwaitingFirstByte"
    /\ Fail(h, [hd[h] EXCEPT !.upEnd = "drop"])
    /\ UNCHANGED <<nextTurn, dispatched, page>>

\* the response of the model server begins
ResponseOpen(h) ==
    /\ hd[h].pc = "AwaitingFirstByte"
    /\ hd' = [hd EXCEPT ![h] = Goto(@, "Streaming")]
    /\ UNCHANGED <<messages, conversations, users, nextTurn, dispatched, page>>

\* the model server writes one more line
ServerSend(h, line) ==
    /\ hd[h].pc = "Streaming"
    /\ ~hd[h].closed
    /\ hd[h].nsent < MaxLines
    /\ hd' = [hd EXCEPT ![h].wire = @ \o line \o <<LF>>,
                        ![h].nsent = @ + 1]
    /\ UNCHANGED <<messages, conversations, users, nextTurn, dispatched, page>>

\* the model server writes the next line once the last one has been read
ServerSendNext(h, line) ==
    /\ hd[h].wire = << >>
    /\ ServerSend(h, line)

\* the model server ends the body, after a last line `tail` that has no
\* line terminator (tail may be empty)
ServerFinish(h, tail) ==
    /\ hd[h].pc = "Streaming"
    /\ ~hd[h].closed
    /\ tail # << >> => hd[h].nsent < MaxLines
    /\ hd' = [hd EXCEPT ![h].wire = @ \o tail,
                        ![h].closed = TRUE,
                        ![h].nsent = IF tail = << >> THEN @ ELSE @ + 1]
    /\ UNCHANGED <<messages, conversations, users, nextTurn, dispatched, page>>

\* the handler after the loop has run over `lines`
AfterLines(h, st0, lines, atEnd) ==
    LET st == RunLines(st0, lines)
    IN  IF st.out = "raise" THEN Fail(h, st)
        ELSE IF st.out = "break" \/ atEnd THEN Complete(h, st)
        ELSE /\ hd' = [hd EXCEPT ![h] = st]
             /\ UNCHANGED <<messages, conversations, users>>

\* one network read of n bytes
Recv(h, n) ==
    /\ hd[h].pc = "Streaming"
    /\ n \in 1..Len(hd[h].wire)
    /\ LET chunk == SubSeq(hd[h].wire, 1, n)
           dec == Decode(hd[h].buf, chunk)
           st0 == [hd[h] EXCEPT
                      !.wire = SubSeq(@, n + 1, Len(@)),
                      !.rcvd = @ \o chunk,
                      !.buf = dec.rest,
                      !.spanned = @ \/ (hd[h].buf # << >> /\ dec.lines # << >>)]
       IN  AfterLines(h, st0, dec.lines, FALSE)
    /\ UNCHANGED <<nextTurn, dispatched, page>>

\* the bytes up to and including the first line terminator on the wire
FirstLine(wire) ==
    IF \E i \in 1..Len(wire) : wire[i] = LF
    THEN CHOOSE i \in 1..Len(wire) :
            /\ wire[i] = LF
            /\ \A j \in 1..(i - 1) : wire[j] # LF
    ELSE Len(wire)

\* a network read that returns exactly the next line
NetReadLine(h) ==
    /\ hd[h].wire # << >>
    /\ Recv(h, FirstLine(hd[h].wire))

\* a network read that returns n bytes, wherever the lines end
NetRead(h, n) ==
    /\ n <= MaxRead
    /\ Recv(h, n)

\* the body of the response ends
UpstreamEOF(h) ==
    /\ hd[h].pc = "Streaming"
    /\ hd[h].wire = << >>
    /\ hd[h].closed
    /\ AfterLines(h, [hd[h] EXCEPT !.upEnd = "eof", !.buf = << >>],
                  Flush(hd[h].buf), TRUE)
    /\ UNCHANGED <<nextTurn, dispatched, page>>

\* the connection to the model server breaks
UpstreamDrop(h) ==
    /\ hd[h].pc = "Streaming"
    /\ Fail(h, [hd[h] EXCEPT !.upEnd = "drop"])
    /\ UNCHANGED <<nextTurn, dispatched, page>>

\* the browser goes away: the handler is cancelled
ClientDisconnect(h) ==
    /\ hd[h].pc \in {"AwaitingFirstByte", "Streaming"}
    /\ hd' = [hd EXCEPT ![h] = Close(@, "Cancelled")]
    /\ UNCHANGED <<messages, conversations, users, nextTurn, dispatched, page>>

\* the request is over; the handler takes the next one
Return(h) ==
    /\ hd[h].pc \in {"Completed", "Failed", "Cancelled", "Aborted"}
    /\ hd' = [hd EXCEPT ![h] = IdleHandler]
    /\ UNCHANGED <<messages, conversations, users, nextTurn, dispatched, page>>

\* ---------------------------------------------------------- the browser
\* String.prototype.trim
Trim(s) == Strip(s)

\* the textarea: the user edits the message
SetMessage(text) ==
    /\ ~client.isStreaming
    /\ client' = [client EXCEPT !.message = text]
    /\ UNCHANGED <<backend, calls, sidebar, localStorage, requests>>

\* handleFileSelect: the files of valid type and size are attached
HandleFileSelect(files) ==
    /\ ~client.isStreaming
    /\ Len(client.attachedFiles) + Len(files) <= MaxFiles
    /\ client' = [client EXCEPT
                     !.attachedFiles = @ \o SelectSeq(files, ValidFile)]
    /\ UNCHANGED <<backend, calls, sidebar, localStorage, requests>>

\* an entry of the list ChatInterface shows; conv is the conversation of
\* the turn or of the history the entry comes from
Shown(role, content, conv) ==
    [role |-> role, content |-> content, conv |-> conv]

\* a handleSend that looks at the conversation only
HandleSendAnyText(c, messageText, attachedFiles) ==
    IF c.conversationId = "none" THEN c
    ELSE [c EXCEPT !.messages = Append(@, Shown("user", messageText,
                                              c.conversationId)),
                   !.isStreaming = TRUE,
                   !.streamingMessage = << >>,
                   !.nposts = @ + 1,
                   !.post = [conversationId |-> c.conversationId,
                             text |-> messageText, files |-> attachedFiles]]

\* handleSend: the page after the call; without a conversation or without
\* text nothing is sent, otherwise sendMessageStream posts the turn
HandleSend(c, messageText, attachedFiles) ==
    IF c.conversationId = "none" \/ Trim(messageText) = << >> THEN c
    ELSE [c EXCEPT !.messages = Append(@, Shown("user", messageText,
                                              c.conversationId)),
                   !.isStreaming = TRUE,
                   !.streamingMessage = << >>,
                   !.nposts = @ + 1,
                   !.post = [conversationId |-> c.conversationId,
                             text |-> messageText, files |-> attachedFiles]]

\* handleSubmit: with text or files, and the input enabled, onSend is
\* called; the input is cleared when onSend has returned, which is at once
\* when nothing was sent and at the end of the stream otherwise
AfterSubmit(c) ==
    LET sent == HandleSend(c, Trim(c.message), c.attachedFiles)
        posted == sent.nposts > c.nposts
        noted == [sent EXCEPT !.nsubmitted = @ + 1,
                              !.submitted =
                                  [text |-> Trim(c.message),
                                   files |-> c.attachedFiles],
                              !.posted = posted]
    IN  IF posted THEN noted
        ELSE [noted EXCEPT !.message = << >>,
                           !.attachedFiles = << >>,
                           !.justTranscribed = FALSE]

\* the form is submitted, by the send button or from handleKeyDown
HandleSubmit ==
    /\ client.nsubmitted < MaxTurns
    /\ Trim(client.message) # << >> \/ Len(client.attachedFiles) > 0
    /\ ~client.isStreaming
    /\ client' = AfterSubmit(client)
    /\ UNCHANGED <<backend, calls, sidebar, localStorage, requests>>

\* handleKeyDown, Enter without Shift in the enabled textarea: after a
\* transcription, or with text or files, handleSubmit is called
HandleKeyDown ==
    /\ client.nsubmitted < MaxTurns
    /\ ~client.isStreaming
    /\ \/ client.justTranscribed
       \/ Trim(client.message) # << >>
       \/ Len(client.attachedFiles) > 0
    /\ client' =
           IF Trim(client.message) # << >> \/ Len(client.attachedFiles) > 0
           THEN AfterSubmit([client EXCEPT !.justTranscribed = FALSE])
           ELSE [client EXCEPT !.justTranscribed = FALSE]
    /\ UNCHANGED <<backend, calls, sidebar, localStorage, requests>>

\* onTranscribe of startRecording: the transcript of a recording joins the
\* message
Transcribed(transcript) ==
    /\ client.message = << >>
    /\ client' = [client EXCEPT !.message = transcript,
                                !.justTranscribed = TRUE]
    /\ UNCHANGED <<backend, calls, sidebar, localStorage, requests>>

\* the stream of the turn has ended: onComplete or onError, then the rest
\* of handleSubmit
StreamEnds(h) ==
    /\ client.isStreaming
    /\ hd[h].pc \in {"Completed", "Failed"}
    /\ client' = [client EXCEPT
                     !.messages =
                         IF hd[h].pc = "Completed"
                         THEN Append(@, Shown("assistant", hd[h].full,
                                              hd[h].conv))
                         ELSE @,
                     !.streamingMessage = << >>,
                     !.isStreaming = FALSE, !.message = << >>,
                     !.attachedFiles = << >>, !.justTranscribed = FALSE]
    /\ UNCHANGED <<backend, calls, sidebar, localStorage, requests>>

\* --------------------------------------------------- sendMessageStream
\* The events of the response are written in the alphabet of the model
\* server's objects:  { a }  is {"content": "a"},  { ! }  is {"done": true}
\* and  { e }  is {"error": "..."}.  "d" ":" stand for the field name and
\* the colon with its space, so the line of an event is  d : { a } .
DataPrefix == <<"d", ":">>

\* the bytes of one server-sent event: the line and the blank line
ServerSentEvent(json) == DataPrefix \o json \o <<LF, LF>>

\* JSON.parse(text)
JsonParse(text) == JsonLoads(text)

\* chunk.split('\n')
SplitLines(chunk) ==
    LET d == Split(chunk, << >>, << >>) IN Append(d.lines, d.rest)

\* line.startsWith('data: ')
StartsWithData(line) == Len(line) >= 2 /\ SubSeq(line, 1, 2) = DataPrefix

\* a call of sendMessageStream as it begins: the FormData, what the server
\* has sent and what of it is still unread, the fullResponse of the
\* handleSend that made the call, and the callbacks invoked so far
NewCall(post) ==
    [pc |-> "fetch", conversationId |-> post.conversationId,
     message |-> post.text, files |-> post.files,
     sent |-> << >>, wire |-> << >>, closed |-> FALSE,
     fullResponse |-> << >>, log |-> << >>]

Called(cb, content) == [cb |-> cb, content |-> content]

\* the page and call n
At(n) == [c |-> client, k |-> calls[n]]

\* onChunk of handleSend
OnChunk(s, chunk) ==
    [c |-> [s.c EXCEPT !.streamingMessage = s.k.fullResponse \o chunk],
     k |-> [s.k EXCEPT !.fullResponse = @ \o chunk,
                       !.log = Append(@, Called("onChunk", chunk))]]

\* onComplete of handleSend
OnComplete(s) ==
    [c |-> [s.c EXCEPT
               !.messages = Append(@, Shown("assistant", s.k.fullResponse,
                                            s.k.conversationId)),
               !.streamingMessage = << >>,
               !.isStreaming = FALSE],
     k |-> [s.k EXCEPT !.log = Append(@, Called("onComplete", << >>))]]

\* onError of handleSend
OnError(s) ==
    [c |-> [s.c EXCEPT !.streamingMessage = << >>, !.isStreaming = FALSE],
     k |-> [s.k EXCEPT !.log = Append(@, Called("onError", << >>))]]

\* sendMessageStream returns, handleSend returns, and handleSubmit goes on
\* after its await: the input is cleared
Returns(s) ==
    [c |-> [s.c EXCEPT !.message = << >>, !.attachedFiles = << >>,
                       !.justTranscribed = FALSE],
     k |-> [s.k EXCEPT !.pc = "returned", !.wire = << >>]]

\* the body of the loop over the lines of a chunk
ProcessLine(s, line) ==
    IF ~StartsWithData(line) THEN s
    ELSE LET data == JsonParse(SubSeq(line, 3, Len(line)))
             s1 == IF data.error THEN OnError(s)
                   ELSE IF data.content # << >>
                        THEN OnChunk(s, data.content)
                        ELSE s
         IN  IF ~data.ok THEN s
             ELSE IF data.done THEN Returns(OnComplete(s1))
             ELSE s1

\* for (const line of lines)
RECURSIVE ProcessLines(_, _)
ProcessLines(s, lines) ==
    IF lines = << >> \/ s.k.pc = "returned" THEN s
    ELSE ProcessLines(ProcessLine(s, Head(lines)), Tail(lines))

\* the page and call n become s
Becomes(n, s) ==
    /\ client' = s.c
    /\ calls' = [calls EXCEPT ![n] = s.k]
    /\ UNCHANGED <<backend, sidebar, localStorage, requests>>

\* fetch(.../chat/stream, {method: 'POST', body: formData}): the request
\* of the last handleSend goes out
Fetch ==
    /\ Len(calls) < client.nposts
    /\ calls' = Append(calls, NewCall(client.post))
    /\ UNCHANGED <<backend, client, sidebar, localStorage, requests>>

\* the response arrives with a 2xx status
ResponseOk(n) ==
    /\ calls[n].pc = "fetch"
    /\ calls' = [calls EXCEPT ![n].pc = "read"]
    /\ UNCHANGED <<backend, client, sidebar, localStorage, requests>>

\* fetch rejects, or the status is not 2xx: the catch calls onError
FetchFails(n) ==
    /\ calls[n].pc = "fetch"
    /\ Becomes(n, Returns(OnError(At(n))))

\* the server writes an event
ServerWrites(n, json) ==
    /\ calls[n].pc = "read"
    /\ ~calls[n].closed
    /\ Len(calls[n].sent) < MaxLines
    /\ calls' = [calls EXCEPT ![n].sent = Append(@, json),
                              ![n].wire = @ \o ServerSentEvent(json)]
    /\ UNCHANGED <<backend, client, sidebar, localStorage, requests>>

\* the server ends the response
ServerCloses(n) ==
    /\ calls[n].pc = "read"
    /\ ~calls[n].closed
    /\ calls' = [calls EXCEPT ![n].closed = TRUE]
    /\ UNCHANGED <<backend, client, sidebar, localStorage, requests>>

\* reader.read() returns the first m bytes that have arrived
ReaderRead(n, m) ==
    /\ calls[n].pc = "read"
    /\ m \in 1..Len(calls[n].wire)
    /\ LET chunk == SubSeq(calls[n].wire, 1, m)
           rest == SubSeq(calls[n].wire, m + 1, Len(calls[n].wire))
       IN  Becomes(n, ProcessLines([c |-> client,
                                    k |-> [calls[n] EXCEPT !.wire = rest]],
                                   SplitLines(chunk)))

\* reader.read() returns done: the loop ends and the function returns
ReaderDone(n) ==
    /\ calls[n].pc = "read"
    /\ calls[n].closed
    /\ calls[n].wire = << >>
    /\ Becomes(n, Returns(At(n)))

\* reader.read() rejects, the connection is lost: the catch calls onError
ReaderFails(n) ==
    /\ calls[n].pc = "read"
    /\ ~calls[n].closed
    /\ Becomes(n, Returns(OnError(At(n))))

\* ------------------------------------------------- apiClient, the auth API
\* localStorage.setItem(key, value)
SetItem(storage, key, value) ==
    [k \in DOMAIN storage \cup {key} |->
        IF k = key THEN value ELSE storage[k]]

\* localStorage.removeItem(key)
RemoveItem(storage, key) == [k \in DOMAIN storage \ {key} |-> storage[k]]

\* localStorage.getItem(key), null for a key that is not there
GetItem(storage, key) ==
    IF key \in DOMAIN storage THEN storage[key] ELSE "null"

\* isAuthenticated(): !!localStorage.getItem('access_token')
IsAuthenticated(storage) ==
    GetItem(storage, "access_token") \notin {"null", ""}

\* an interceptor that drops the token and keeps the user
InterceptorKeepsUser(storage, status) ==
    IF status = 401 THEN RemoveItem(storage, "access_token") ELSE storage

\* the response interceptor: a 401 removes the token and the user
ResponseInterceptor(storage, status) ==
    IF status = 401
    THEN RemoveItem(RemoveItem(storage, "access_token"), "user")
    ELSE storage

\* signup and login after the response: a token in the body is stored with
\* the user; JSON.stringify of a missing user is stored as "undefined"
StoreSession(storage, status, data) ==
    IF status = 200 /\ data.access_token # ""
    THEN SetItem(SetItem(storage, "access_token", data.access_token),
                 "user", data.user)
    ELSE storage

\* logout after the response, whatever it is
ClearSession(storage) ==
    RemoveItem(RemoveItem(storage, "access_token"), "user")

\* apiClient.post / apiClient.get: a request goes out
Request(kind) ==
    /\ requests.issued < MaxRequests
    /\ requests' = [requests EXCEPT
                       !.issued = @ + 1,
                       !.pending = @ \cup {[n |-> requests.issued + 1,
                                            kind |-> kind]}]
    /\ UNCHANGED <<backend, client, calls, sidebar, localStorage>>

\* the response of request r arrives, or the request fails (status 0): the
\* interceptor runs, then the rest of the function that made the request
Response(r, status, data) ==
    /\ r \in requests.pending
    /\ requests' = [requests EXCEPT
                       !.pending = @ \ {r},
                       !.last = [kind |-> r.kind, status |-> status,
                                 had |-> IsAuthenticated(localStorage)]]
    /\ LET seen == ResponseInterceptor(localStorage, status)
       IN  localStorage' =
               IF r.kind \in {"signup", "login"}
               THEN StoreSession(seen, status, data)
               ELSE IF r.kind = "logout" THEN ClearSession(seen)
               ELSE seen
    /\ UNCHANGED <<backend, client, calls, sidebar>>

\* ------------------------------------------------------- the datastore
\* the rows of `gone` leave the conversations table, and their messages go
\* with them
Delete(gone) ==
    /\ conversations' = Remaining(conversations, gone)
    /\ messages' = OnDeleteCascade(messages, Remaining(conversations, gone))

\* createConversation('New Conversation') for user u
CreateConversation(c, u) ==
    /\ c \notin DOMAIN conversations
    /\ u \in users
    /\ conversations' =
           [d \in DOMAIN conversations \cup {c} |->
               IF d = c THEN Conversation(u, DefaultTitle)
               ELSE conversations[d]]
    /\ UNCHANGED <<messages, users, nextTurn, dispatched, hd, page>>

\* INSERT INTO messages: the row joins the table when its conversation
\* exists, and the title trigger runs
InsertMessage(c, role, content) ==
    /\ c \in DOMAIN conversations
    /\ nextTurn <= MaxTurns
    /\ messages' = SaveMessage(messages, c, role, content, "none", nextTurn)
    /\ conversations' = Titled(c, role, content)
    /\ nextTurn' = nextTurn + 1
    /\ UNCHANGED <<users, dispatched, hd, page>>

\* updateConversation(id, title)
UpdateConversation(c, title) ==
    /\ c \in DOMAIN conversations
    /\ conversations[c].title # title
    /\ conversations' = [conversations EXCEPT ![c].title = title]
    /\ UNCHANGED <<messages, users, nextTurn, dispatched, hd, page>>

\* a day passes
Elapse ==
    /\ DOMAIN conversations # {}
    /\ \A c \in DOMAIN conversations : conversations[c].age < MaxAge
    /\ conversations' =
           [c \in DOMAIN conversations |->
               [conversations[c] EXCEPT !.age = @ + 1]]
    /\ UNCHANGED <<messages, users, nextTurn, dispatched, hd, page>>

\* deleteConversation(id)
DeleteConversation(c) ==
    /\ c \in DOMAIN conversations
    /\ Delete({c})
    /\ UNCHANGED <<users, nextTurn, dispatched, hd, page>>

\* delete_old_conversations(retention_days)
DeleteOldConversations(retention_days) ==
    /\ Delete({c \in DOMAIN conversations :
                  conversations[c].age > retention_days})
    /\ UNCHANGED <<users, nextTurn, dispatched, hd, page>>

\* delete_user_data(user_uuid)
DeleteUserData(user_uuid) ==
    /\ user_uuid \in users
    /\ Delete({c \in DOMAIN conversations :
                  conversations[c].user_id = user_uuid})
    /\ users' = users \ {user_uuid}
    /\ UNCHANGED <<nextTurn, dispatched, hd, page>>

\* delete_orphaned_messages()
DeleteOrphanedMessages ==
    /\ messages' = OnDeleteCascade(messages, conversations)
    /\ UNCHANGED <<conversations, users, nextTurn, dispatched, hd, page>>

\* ---------------------------------------------------- ChatPage, Sidebar
\* the page with conversation c selected: a new conversationId makes
\* ChatInterface load the messages of c
Selected(cl, c) ==
    IF c = cl.conversationId THEN cl
    ELSE [cl EXCEPT !.conversationId = c, !.loading = TRUE]

\* getConversationHistory(conversationId): the rows of the conversation
History(c) ==
    LET rows == SelectSeq(messages, LAMBDA row : row.conv = c)
    IN  [i \in DOMAIN rows |-> Shown(rows[i].role, rows[i].content, c)]

\* loadMessages: the history of the selected conversation has arrived
LoadMessages ==
    /\ client.loading
    /\ client' = [client EXCEPT !.messages = History(client.conversationId),
                                !.loading = FALSE]
    /\ UNCHANGED <<backend, calls, sidebar, localStorage, requests>>

\* the ids in the list of the Sidebar
Listed == {sidebar[i] : i \in DOMAIN sidebar}

\* onSelect of a ConversationItem: handleConversationSelect
HandleConversationSelect(c) ==
    /\ c \in Listed
    /\ c # client.conversationId
    /\ client' = Selected(client, c)
    /\ UNCHANGED <<backend, calls, sidebar, localStorage, requests>>

\* handleNewChat of the Sidebar: the conversation is created, heads the
\* list and is selected
HandleNewChat(c) ==
    /\ c \notin DOMAIN conversations
    /\ c \notin Listed
    /\ conversations' =
           [d \in DOMAIN conversations \cup {c} |->
               IF d = c THEN Conversation("u1", DefaultTitle)
               ELSE conversations[d]]
    /\ sidebar' = <<c>> \o sidebar
    /\ client' = Selected(client, c)
    /\ UNCHANGED <<messages, users, nextTurn, dispatched, hd, calls,
                   localStorage, requests>>

\* handleDelete of the Sidebar: the conversation is deleted and leaves the
\* list; when it was the selected one and the list had others, the first
\* of the others is selected
HandleDelete(conversationId) ==
    /\ conversationId \in Listed
    /\ conversationId \in DOMAIN conversations
    /\ Delete({conversationId})
    /\ LET remaining == SelectSeq(sidebar, LAMBDA c : c # conversationId)
       IN  /\ sidebar' = remaining
           /\ client' =
                  IF /\ conversationId = client.conversationId
                     /\ Len(sidebar) > 1
                  THEN Selected(client, remaining[1])
                  ELSE client
    /\ UNCHANGED <<users, nextTurn, dispatched, hd, calls, localStorage,
                   requests>>

\* one browser session; every network read returns one line
Next ==
    \/ \E h \in Session, c \in Convs, t \in Texts, m \in Models :
          SaveUser(h, c, t, m)
    \/ \E h \in Session, c \in Convs, t \in Texts, m \in Models :
          SaveUserFails(h, c, t, m)
    \/ \E h \in Session : Dispatch(h)
    \/ \E h \in Session : ConnectFail(h)
    \/ \E h \in Session : ResponseOpen(h)
    \/ \E h \in Session, l \in SessionMenu : ServerSendNext(h, l)
    \/ \E h \in Session : ServerFinish(h, << >>)
    \/ \E h \in Session : NetReadLine(h)
    \/ \E h \in Session : UpstreamEOF(h)
    \/ \E h \in Session : UpstreamDrop(h)
    \/ \E h \in Session : ClientDisconnect(h)
    \/ \E h \in Session : Return(h)

Spec == Init /\ [][Next]_vars

\* one turn; the model server writes ahead of the relay and a network read
\* returns any number of bytes up to MaxRead
NextRelay ==
    \/ \E h \in Session, t \in Texts : SaveUser(h, "c1", t, "m1")
    \/ \E h \in Session : Dispatch(h)
    \/ \E h \in Session : ConnectFail(h)
    \/ \E h \in Session : ResponseOpen(h)
    \/ \E h \in Session, l \in LineMenu : ServerSend(h, l)
    \/ \E h \in Session, l \in LineMenu : ServerFinish(h, l)
    \/ \E h \in Session, n \in 1..MaxRead : NetRead(h, n)
    \/ \E h \in Session : UpstreamEOF(h)
    \/ \E h \in Session : UpstreamDrop(h)
    \/ \E h \in Session : ClientDisconnect(h)

SpecRelay == Init /\ [][NextRelay]_vars

\* the sides of the uploaded images, in pixels
Sides == {49, 50, 3000, 4000, 4001, 9000}
\* the files a request can carry: images of these sides, and documents and
\* archives within and over the size limit
FileMenu ==
    { [type |-> "image/png", size |-> 1000, w |-> w, h |-> h] :
          w \in Sides, h \in Sides }
    \cup { [type |-> "image/jpeg", size |-> MaxFileBytes + 1,
            w |-> 100, h |-> 100],
           [type |-> "application/pdf", size |-> 1000, w |-> 0, h |-> 0],
           [type |-> "text/plain", size |-> MaxFileBytes, w |-> 0, h |-> 0],
           [type |-> "application/pdf", size |-> MaxFileBytes + 1,
            w |-> 0, h |-> 0],
           [type |-> "application/zip", size |-> 1000, w |-> 0, h |-> 0] }
FileLists == UNION {[1..n -> FileMenu] : n \in 1..MaxFiles}

\* one request with files, of any kind, sent straight to the endpoint
NextFiles ==
    \/ \E h \in Session :
          /\ hd[h].pc = "Idle"
          /\ \E files \in FileLists : ProcessFiles(h, files)
    \/ \E h \in Session, t \in Texts : SaveUser(h, "c1", t, "m1")
    \/ \E h \in Session : Dispatch(h)

SpecFiles == Init /\ [][NextFiles]_vars

\* what the user types, and the files the user picks: an image too small
\* for the normalizer, an image, an archive
TypedTexts == {<< >>, <<" ">>, <<"q">>}
PickMenu ==
    { [type |-> "image/png", size |-> 1000, w |-> 40, h |-> 40],
      [type |-> "image/png", size |-> 1000, w |-> 100, h |-> 100],
      [type |-> "application/zip", size |-> 1000, w |-> 0, h |-> 0] }
Picks == UNION {[1..n -> PickMenu] : n \in 1..MaxFiles}
\* the lines of the replies to the page: the completion flag, a malformed
\* line
ReplyMenu == { <<"{", "!", "}">>, <<"{", "a">> }

\* the POST /chat/stream that is next to be served, when there is one
HasPost == nextTurn <= client.nposts
NextPost == client.post

\* the chat page and the endpoint: the turns are those the page posts
NextClient ==
    \/ \E text \in TypedTexts : SetMessage(text)
    \/ \E files \in Picks : HandleFileSelect(files)
    \/ HandleSubmit
    \/ \E h \in Session :
          /\ HasPost
          /\ ProcessFiles(h, NextPost.files)
    \/ \E h \in Session :
          /\ HasPost
          /\ NextPost.files # << >> => hd[h].pc = "Processed"
          /\ SaveUser(h, client.conversationId, NextPost.text, "m1")
    \/ \E h \in Session : Dispatch(h)
    \/ \E h \in Session : ResponseOpen(h)
    \/ \E h \in Session, l \in ReplyMenu : ServerSendNext(h, l)
    \/ \E h \in Session : NetReadLine(h)
    \/ \E h \in Session : StreamEnds(h)
    \/ \E h \in Session : ~client.isStreaming /\ Return(h)

SpecClient == Init /\ [][NextClient]_vars

\* the replies when two turns run at once: the model server answers the
\* request of h1 with fragments "a" and the request of h2 with fragments "b"
ConcMenu(h) ==
    { <<"{", IF h = "h1" THEN "a" ELSE "b", "}">>, <<"{", "!", "}">> }
\* the uploads of these turns: one image
ConcUploads ==
    { <<[type |-> "image/png", size |-> 1000, w |-> 100, h |-> 100]>> }

\* two requests at once (two tabs, two clients), in one conversation or in
\* two; every network read returns one line
NextConc ==
    \/ \E h \in Handlers, files \in ConcUploads : ProcessFiles(h, files)
    \/ \E h \in Handlers, c \in Convs, t \in Texts :
          SaveUser(h, c, t, "m1")
    \/ \E h \in Handlers : Dispatch(h)
    \/ \E h \in Handlers : ResponseOpen(h)
    \/ \E h \in Handlers : \E l \in ConcMenu(h) : ServerSendNext(h, l)
    \/ \E h \in Handlers : ServerFinish(h, << >>)
    \/ \E h \in Handlers : NetReadLine(h)
    \/ \E h \in Handlers : UpstreamEOF(h)
    \/ \E h \in Handlers : ClientDisconnect(h)

SpecConc == Init /\ [][NextConc]_vars

\* the datastore on its own: conversations are created, renamed and
\* deleted, messages inserted, days pass
X(n) == [i \in 1..n |-> "x"]
StoreTexts == {X(1), X(TitleLength), X(TitleLength + 1)}
\* the messages inserted: those of a user, and a reply
StoreRows ==
    {[role |-> "user", content |-> t] : t \in StoreTexts}
        \cup {[role |-> "assistant", content |-> X(1)]}
Renames == {<<"r">>, DefaultTitle}
RetentionDays == {0, 1}

NextStore ==
    \/ \E c \in Convs, u \in Users : CreateConversation(c, u)
    \/ \E c \in Convs, row \in StoreRows :
           InsertMessage(c, row.role, row.content)
    \/ \E c \in Convs, title \in Renames : UpdateConversation(c, title)
    \/ Elapse
    \/ \E c \in Convs : DeleteConversation(c)
    \/ \E retention_days \in RetentionDays :
           DeleteOldConversations(retention_days)
    \/ \E user_uuid \in Users : DeleteUserData(user_uuid)
    \/ DeleteOrphanedMessages

SpecStore == Init /\ [][NextStore]_vars

\* one call of sendMessageStream against a server that sends what it
\* likes, in reads of every size
EventMenu ==
    { <<"{", "a", "}">>, <<"{", "b", "}">>, <<"{", "e", "}">>,
      <<"{", "!", "}">> }

NextStream ==
    \/ SetMessage(<<"q">>)
    \/ client.nposts = 0 /\ HandleSubmit
    \/ Fetch
    \/ \E n \in DOMAIN calls : ResponseOk(n)
    \/ \E n \in DOMAIN calls : FetchFails(n)
    \/ \E n \in DOMAIN calls, json \in EventMenu : ServerWrites(n, json)
    \/ \E n \in DOMAIN calls : ServerCloses(n)
    \/ \E n \in DOMAIN calls, m \in 1..MaxRead : ReaderRead(n, m)
    \/ \E n \in DOMAIN calls :
          ReaderRead(n, Len(ServerSentEvent(<<"{", "a", "}">>)))
    \/ \E n \in DOMAIN calls : ReaderDone(n)
    \/ \E n \in DOMAIN calls : ReaderFails(n)

SpecStream == Init /\ [][NextStream]_vars

\* the chat page against a server that sends what it likes: the user
\* types, dictates, submits and selects conversations while the turns run
PageMenu == { <<"{", "e", "}">>, <<"{", "!", "}">> }

NextPage ==
    \/ SetMessage(<<"q">>)
    \/ Transcribed(<<"q">>)
    \/ HandleSubmit
    \/ HandleKeyDown
    \/ \E c \in Convs : HandleConversationSelect(c)
    \/ LoadMessages
    \/ Fetch
    \/ \E n \in DOMAIN calls : ResponseOk(n)
    \/ \E n \in DOMAIN calls, json \in PageMenu : ServerWrites(n, json)
    \/ \E n \in DOMAIN calls : ServerCloses(n)
    \/ \E n \in DOMAIN calls : ReaderRead(n, Len(calls[n].wire))
    \/ \E n \in DOMAIN calls : ReaderDone(n)

SpecPage == Init /\ [][NextPage]_vars

\* the Sidebar: conversations are created, selected and deleted, and the
\* selected one loaded, while the user types
NewConvs == Convs \cup {"c3"}

NextSidebar ==
    \/ \E text \in TypedTexts : SetMessage(text)
    \/ \E c \in NewConvs : HandleConversationSelect(c)
    \/ \E c \in NewConvs : HandleNewChat(c)
    \/ \E c \in NewConvs : HandleDelete(c)
    \/ LoadMessages

SpecSidebar == Init /\ [][NextSidebar]_vars

\* the auth API and the other calls of apiClient against a server that
\* answers what it likes
RequestKinds == {"signup", "login", "logout", "api"}
Statuses == {0, 200, 401, 500}
Bodies ==
    { [access_token |-> "t1", user |-> "u1"],
      [access_token |-> "t2", user |-> "undefined"],
      [access_token |-> "", user |-> "u1"] }

NextAuth ==
    \/ \E kind \in RequestKinds : Request(kind)
    \/ \E r \in requests.pending, status \in Statuses, data \in Bodies :
          Response(r, status, data)

SpecAuth == Init /\ [][NextAuth]_vars

\* ================================================================ claims
RelayPcs == {"AwaitingFirstByte", "Streaming", "Completed", "Failed",
             "Cancelled"}

HasUserRow(turn, conv) ==
    \E i \in DOMAIN messages :
        /\ messages[i].role = "user"
        /\ messages[i].turn = turn
        /\ messages[i].conv = conv

AssistantRows(turn) ==
    {i \in DOMAIN messages :
        messages[i].role = "assistant" /\ messages[i].turn = turn}

\* the fragments of the content events of an event sequence, in order
RECURSIVE Fragments(_)
Fragments(ev) ==
    IF ev = << >> THEN << >>
    ELSE IF Head(ev).type = "content"
         THEN <<Head(ev).content>> \o Fragments(Tail(ev))
         ELSE Fragments(Tail(ev))

RECURSIVE Concat(_)
Concat(ss) == IF ss = << >> THEN << >> ELSE Head(ss) \o Concat(Tail(ss))

\* C1: a model request is open, or was opened, only for a turn whose user
\* message is stored; whatever happens to the request later (the model
\* server unreachable, the stream broken), the user row is there.
C1_UserSavedBeforeDispatch ==
    /\ \A i \in DOMAIN dispatched :
          HasUserRow(dispatched[i].turn, dispatched[i].conv)
    /\ \A h \in Handlers :
          hd[h].pc \in RelayPcs => HasUserRow(hd[h].turn, hd[h].conv)

\* a turn whose model request failed, with its user row in the store
C1_Witness ==
    \E h \in Handlers :
        /\ hd[h].pc = "Failed"
        /\ \E i \in DOMAIN dispatched : dispatched[i].turn = hd[h].turn
        /\ HasUserRow(hd[h].turn, hd[h].conv)

\* C2: every stored assistant message comes, in insertion order and in the
\* same conversation, after the stored user message of its own turn.
C2_AssistantAfterUser ==
    \A i \in DOMAIN messages :
        messages[i].role = "assistant" =>
            \E j \in 1..(i - 1) :
                /\ messages[j].role = "user"
                /\ messages[j].conv = messages[i].conv
                /\ messages[j].turn = messages[i].turn

\* the second turn of a session completed after a first turn that left no
\* assistant message
C2_Witness ==
    /\ AssistantRows(2) # {}
    /\ AssistantRows(1) = {}
    /\ \E i \in DOMAIN messages : messages[i].turn = 1

IsBlank(line) == Strip(line) = << >>

\* a line that is neither blank nor a JSON object
IsMalformed(line) == ~IsBlank(line) /\ ~JsonLoads(line).ok

IsErrorResponse(line) == JsonLoads(line).ok /\ JsonLoads(line).error

HasDoneFlag(line) == JsonLoads(line).ok /\ JsonLoads(line).done

NotBlank(line) == ~IsBlank(line)

\* the lines of the bytes received, the last unfinished one counted when
\* the body has ended
LinesOf(bytes, upEnd) ==
    LET sp == Split(bytes, << >>, << >>)
    IN  sp.lines \o (IF upEnd = "eof" THEN Flush(sp.rest) ELSE << >>)

\* the events the loop owes the client for these lines, and the terminal
\* event for the way the stream ended
EventsFor(lines, upEnd) ==
    LET r == RunLines([events |-> << >>, full |-> << >>, arrived |-> << >>,
                       out |-> "more"], lines)
    IN  r.events \o
        (IF r.out = "raise" THEN <<ErrorEvent>>
         ELSE IF r.out = "break" THEN <<DoneEvent>>
         ELSE IF upEnd = "eof" THEN <<DoneEvent>>
         ELSE IF upEnd = "drop" THEN <<ErrorEvent>>
         ELSE << >>)

LastEvent(h) == hd[h].events[Len(hd[h].events)]

\* the turn met one of the failures of a stream
MidStreamFailure(h) ==
    \/ hd[h].upEnd = "drop"
    \/ \E i \in DOMAIN hd[h].arrived :
          IsMalformed(hd[h].arrived[i]) \/ IsErrorResponse(hd[h].arrived[i])

\* C4 (as claimed): a turn that met a mid-stream failure -- the connection
\* broke, a malformed line arrived, or the model server answered with an
\* error object -- ends with the error event after what was forwarded,
\* stores no assistant message and keeps its user message.
C4_FailureLeavesNoAssistant ==
    \A h \in Handlers :
        (hd[h].pc \in {"Completed", "Failed"} /\ MidStreamFailure(h)) =>
            /\ hd[h].events # << >>
            /\ LastEvent(h) = ErrorEvent
            /\ AssistantRows(hd[h].turn) = {}
            /\ HasUserRow(hd[h].turn, hd[h].conv)

\* a line with the completion flag has been handed to the loop
DoneArrived(h) ==
    \E i \in DOMAIN hd[h].arrived : HasDoneFlag(hd[h].arrived[i])

\* C5: once a line with the completion flag has arrived, the turn is
\* completed: nothing was read into the loop after that line, the content
\* events are those of the lines before it, one assistant message is stored
\* with the forwarded text and the selected model, and the last event is
\* done.
C5_CompletionFlag ==
    \A h \in Handlers :
        DoneArrived(h) =>
            LET n == Len(hd[h].arrived)
                before == SubSeq(hd[h].arrived, 1, n - 1)
            IN  /\ hd[h].pc = "Completed"
                /\ HasDoneFlag(hd[h].arrived[n])
                /\ \A i \in 1..(n - 1) : ~HasDoneFlag(hd[h].arrived[i])
                /\ hd[h].events = EventsFor(before, "open") \o <<DoneEvent>>
                /\ Cardinality(AssistantRows(hd[h].turn)) = 1
                /\ \A i \in AssistantRows(hd[h].turn) :
                      /\ messages[i].content = Concat(Fragments(hd[h].events))
                      /\ messages[i].model = hd[h].model
                      /\ messages[i].conv = hd[h].conv

\* a turn completed by the flag after a fragment, while a further line that
\* the server had sent was in the same read and went unforwarded
C5_Witness ==
    \E h \in Handlers :
        /\ hd[h].pc = "Completed"
        /\ DoneArrived(h)
        /\ Fragments(hd[h].events) # << >>
        /\ Len(Split(hd[h].rcvd, << >>, << >>).lines) > Len(hd[h].arrived)

\* the fragments of the lines that parse and carry content
RECURSIVE ContentOfLines(_)
ContentOfLines(lines) ==
    IF lines = << >> THEN << >>
    ELSE LET j == JsonLoads(Head(lines))
         IN  (IF j.ok /\ j.content # << >> THEN <<j.content>> ELSE << >>)
             \o ContentOfLines(Tail(lines))

\* the same, of the lines that do not carry the completion flag
RECURSIVE ContentOfOpenLines(_)
ContentOfOpenLines(lines) ==
    IF lines = << >> THEN << >>
    ELSE LET j == JsonLoads(Head(lines))
         IN  (IF j.ok /\ ~j.done /\ j.content # << >>
              THEN <<j.content>> ELSE << >>)
             \o ContentOfOpenLines(Tail(lines))

\* C6 (as claimed): every parsed line with content gives one content event
\* with that fragment, in arrival order, and nothing else gives one.
C6_EveryContentLineForwarded ==
    \A h \in Handlers :
        Fragments(hd[h].events) = ContentOfLines(hd[h].arrived)

\* C6 (amended): every parsed line with content and without the completion
\* flag gives one content event with exactly that fragment, in arrival
\* order; lines with empty content, and the line with the flag, give none.
C6_OpenLinesForwarded ==
    \A h \in Handlers :
        Fragments(hd[h].events) = ContentOfOpenLines(hd[h].arrived)

\* two content lines with an empty-content line between them have arrived
C6_Witness ==
    \E h \in Handlers :
        /\ hd[h].arrived = << <<"{", "a", "}">>, <<"{", "}">>,
                              <<"{", "b", "}">> >>
        /\ Fragments(hd[h].events) = << <<"a">>, <<"b">> >>

\* C7: the events of a turn are those its byte sequence asks for, however
\* the bytes were cut into reads; a line cut by a read is parsed once, whole.
C7_ReadSplitIndependence ==
    \A h \in Handlers :
        hd[h].pc \in RelayPcs =>
            /\ hd[h].events =
                  EventsFor(LinesOf(hd[h].rcvd, hd[h].upEnd), hd[h].upEnd)
            /\ \A i \in DOMAIN hd[h].arrived :
                  hd[h].arrived[i] = LinesOf(hd[h].rcvd, hd[h].upEnd)[i]

\* a completed turn with two fragments, one of whose lines came in two reads
C7_Witness ==
    \E h \in Handlers :
        /\ hd[h].pc = "Completed"
        /\ hd[h].spanned
        /\ Len(Fragments(hd[h].events)) = 2

\* C8 (as claimed): blank and white-space lines are skipped: the events of
\* a turn are those of its byte sequence with these lines left out.
C8_BlankLinesSkipped ==
    \A h \in Handlers :
        hd[h].pc \in RelayPcs =>
            hd[h].events =
                EventsFor(SelectSeq(LinesOf(hd[h].rcvd, hd[h].upEnd), NotBlank),
                          hd[h].upEnd)

IsTerminalEvent(e) == e.type \in {"done", "error"}

\* C9: the events of a turn are content events followed by at most one
\* terminal event; a turn that ended with its client connected has exactly
\* one, done when it completed and error when it failed, and a turn still
\* running or cancelled has none.
C9_OneTerminalEvent ==
    \A h \in Handlers :
        LET ev == hd[h].events
            n == Len(ev)
        IN  /\ \A i \in 1..n : ev[i].type \in {"content", "done", "error"}
            /\ \A i \in 1..n : ev[i].type = "content" => ev[i].content # << >>
            /\ \A i \in 1..(n - 1) : ~IsTerminalEvent(ev[i])
            /\ hd[h].pc = "Completed" => n >= 1 /\ ev[n] = DoneEvent
            /\ hd[h].pc = "Failed" => n >= 1 /\ ev[n] = ErrorEvent
            /\ hd[h].pc \notin {"Completed", "Failed"} =>
                  \A i \in 1..n : ~IsTerminalEvent(ev[i])

\* a turn that failed after it had forwarded a fragment
C9_Witness ==
    \E h \in Handlers :
        /\ hd[h].pc = "Failed"
        /\ Len(hd[h].events) >= 2
        /\ hd[h].events[1].type = "content"

IsPrefix(p, q) == Len(p) <= Len(q) /\ \A i \in 1..Len(p) : p[i] = q[i]

\* the paths of the relay state machine as the design states them
ClaimedPaths ==
    { <<"Idle", "AwaitingFirstByte", "Streaming", "Completed">>,
      <<"Idle", "AwaitingFirstByte", "Streaming", "Failed">>,
      <<"Idle", "AwaitingFirstByte", "Streaming", "Cancelled">>,
      <<"Idle", "AwaitingFirstByte", "Cancelled">> }

\* C10 (as claimed): the relay states a turn has entered are a beginning of
\* Idle, AwaitingFirstByte, Streaming, Completed | Failed, or of that path
\* cut short by a cancellation out of AwaitingFirstByte or Streaming.
C10_ClaimedPaths ==
    \A h \in Handlers : \E q \in ClaimedPaths : IsPrefix(hd[h].path, q)

\* C10 (amended): as claimed, with one more path: a turn whose model server
\* cannot be reached goes from AwaitingFirstByte to Failed.
C10_RelayPaths ==
    \A h \in Handlers :
        \E q \in ClaimedPaths \cup {<<"Idle", "AwaitingFirstByte", "Failed">>} :
            IsPrefix(hd[h].path, q)

\* a turn that failed before the response of the model server began
C10_Witness ==
    \E h \in Handlers :
        hd[h].path = <<"Idle", "AwaitingFirstByte", "Failed">>

\* C11: a client disconnect in AwaitingFirstByte or Streaming cancels the
\* turn wherever it falls among the arriving bytes: the connection to the
\* model server is closed with nothing left to read, no assistant message is
\* stored for the turn (the fragments already forwarded are not stored), the
\* events are the ones of the lines read before and none of them is
\* terminal, and from then on the turn reads nothing, emits nothing and
\* stores nothing.
C11_DisconnectCancels ==
    /\ [](\A h \in Handlers :
            hd[h].pc = "Cancelled" =>
                /\ hd[h].closed
                /\ hd[h].wire = << >>
                /\ AssistantRows(hd[h].turn) = {}
                /\ hd[h].events =
                       EventsFor(LinesOf(hd[h].rcvd, "open"), "open")
                /\ \A i \in 1..Len(hd[h].events) :
                       ~IsTerminalEvent(hd[h].events[i]))
    /\ [][\A h \in Handlers :
            (hd[h].pc = "Cancelled" /\ hd'[h].pc = "Cancelled") =>
                /\ hd'[h].events = hd[h].events
                /\ hd'[h].rcvd = hd[h].rcvd
                /\ hd'[h].wire = hd[h].wire
                /\ \A i \in DOMAIN messages' :
                       messages'[i].turn = hd[h].turn =>
                           i \in DOMAIN messages]_vars

\* a disconnect that fell in the middle of a line, after a fragment had
\* been forwarded
C11_Witness ==
    \E h \in Handlers :
        /\ hd[h].pc = "Cancelled"
        /\ Fragments(hd[h].events) # << >>
        /\ hd[h].rcvd # << >>
        /\ hd[h].rcvd[Len(hd[h].rcvd)] # LF

\* the turns whose user message the datastore refused
AbortedTurns ==
    {t \in 1..(nextTurn - 1) :
        ~\E i \in DOMAIN messages :
            messages[i].turn = t /\ messages[i].role = "user"}

\* C12: a turn whose user message could not be saved is aborted before
\* dispatch: no model request is ever opened for it, no assistant message is
\* ever stored for it, and its request ends as a failed request that never
\* left Idle: no stream, no event, no connection.
C12_SaveFailureAborts ==
    \A t \in AbortedTurns :
        /\ \A i \in DOMAIN dispatched : dispatched[i].turn # t
        /\ AssistantRows(t) = {}
        /\ \A h \in Handlers :
               hd[h].turn = t =>
                   /\ hd[h].pc = "Aborted"
                   /\ hd[h].path = <<"Idle">>
                   /\ hd[h].events = << >>
                   /\ hd[h].rcvd = << >>
                   /\ hd[h].wire = << >>
                   /\ ~hd[h].closed

\* the first turn was aborted and the session went on: the next turn has
\* its assistant message
C12_Witness ==
    /\ 1 \in AbortedTurns
    /\ AssistantRows(2) # {}
    /\ \A i \in DOMAIN dispatched : dispatched[i].turn # 1

\* C13: a turn has at most one model request and at most one assistant
\* message: the relay never dispatches a turn again after it failed or was
\* cancelled, so another request for the same input is another turn.
C13_AtMostOnce ==
    /\ \A i, j \in DOMAIN dispatched :
           dispatched[i].turn = dispatched[j].turn => i = j
    /\ \A t \in 1..(nextTurn - 1) : Cardinality(AssistantRows(t)) <= 1
    /\ \A h \in Handlers :
           hd[h].pc \in {"Failed", "Cancelled"} =>
               /\ Cardinality({i \in DOMAIN dispatched :
                                  dispatched[i].turn = hd[h].turn}) = 1
               /\ AssistantRows(hd[h].turn) = {}

\* the first turn was dispatched and left no assistant message; the same
\* input was submitted again as the second turn, which has its own request
C13_Witness ==
    /\ Len(dispatched) = 2
    /\ dispatched[1].turn = 1
    /\ dispatched[2].turn = 2
    /\ dispatched[1].conv = dispatched[2].conv
    /\ AssistantRows(1) = {}
    /\ \E h \in Handlers : hd[h].turn = 2 /\ hd[h].pc = "Failed"

\* the entries of a submission list without their images
Entries(sub) ==
    [i \in 1..Len(sub) |->
        [role |-> sub[i].role, content |-> sub[i].content,
         turn |-> sub[i].turn]]

\* the place of the user message of a turn in the messages table
UserRowOf(turn) ==
    CHOOSE i \in DOMAIN messages :
        messages[i].turn = turn /\ messages[i].role = "user"

\* the history of a turn: the messages of its conversation stored before
\* its own user message
HistoryOf(h) ==
    SelectSeq(SubSeq(messages, 1, UserRowOf(hd[h].turn) - 1),
              LAMBDA row : row.conv = hd[h].conv)

\* C14: the submission list of a turn is the system entry with the fixed
\* preamble, then the history of the turn entry by entry with role and
\* content as stored, then one user entry for the turn itself, and
\* nothing else.
C14_SubmissionList ==
    \A h \in Handlers :
        hd[h].submission # << >> =>
            Entries(hd[h].submission) =
                <<[role |-> "system", content |-> SystemPrompt, turn |-> 0]>>
                \o [i \in 1..Len(HistoryOf(h)) |->
                       [role |-> HistoryOf(h)[i].role,
                        content |-> HistoryOf(h)[i].content,
                        turn |-> HistoryOf(h)[i].turn]]
                \o <<[role |-> "user", content |-> hd[h].text,
                      turn |-> hd[h].turn]>>

\* C15: in a submission list only the last entry carries images, and it
\* is the user entry of the turn that uploaded them.
C15_ImagesOnOwnTrailingEntry ==
    \A h \in Handlers :
        \A i \in DOMAIN hd[h].submission :
            hd[h].submission[i].images # << >> =>
                /\ i = Len(hd[h].submission)
                /\ hd[h].submission[i].role = "user"
                /\ hd[h].submission[i].turn = hd[h].turn
                /\ hd[h].submission[i].images =
                       UploadedImages(hd[h].normalized)

\* the character of the fragments the model server sends to handler h when
\* two turns run at once
OwnChar(h) == IF h = "h1" THEN "a" ELSE "b"

\* C16: of two turns that run at once, in one conversation or in two, each
\* has on its client stream exactly the fragments read from its own model
\* connection, in the order read, and its assistant message is made of
\* these fragments: no fragment of the other turn is in its events or in
\* its assistant message.
C16_StreamsApart ==
    \A h \in Handlers :
        /\ Fragments(hd[h].events) =
               Fragments(EventsFor(LinesOf(hd[h].rcvd, hd[h].upEnd),
                                   hd[h].upEnd))
        /\ \A i \in DOMAIN hd[h].events :
               \A k \in DOMAIN hd[h].events[i].content :
                   hd[h].events[i].content[k] = OwnChar(h)
        /\ \A i \in AssistantRows(hd[h].turn) :
               /\ messages[i].content = Concat(Fragments(hd[h].events))
               /\ \A k \in DOMAIN messages[i].content :
                      messages[i].content[k] = OwnChar(h)

\* two turns of one conversation whose replies were read in turns: each
\* has its own two fragments in its assistant message
C16_Witness ==
    /\ hd["h1"].conv = hd["h2"].conv
    /\ \A h \in Handlers :
           /\ hd[h].pc = "Completed"
           /\ Len(Fragments(hd[h].events)) = 2
           /\ AssistantRows(hd[h].turn) # {}

\* what a reader of the messages table sees of its rows
Visible(rows) ==
    [i \in DOMAIN rows |->
        [conv |-> rows[i].conv, role |-> rows[i].role,
         content |-> rows[i].content, model |-> rows[i].model]]

\* C17: the messages table is append-only: every step of a turn, the
\* assembling of its submission list included, leaves the rows there are
\* in their places with conversation, role, content and model unchanged;
\* new rows come after them.
C17_AppendOnly ==
    [][IsPrefix(Visible(messages), Visible(messages'))]_vars

\* the second turn of a conversation has its submission list assembled
\* from the two messages of the first turn and has stored its own reply
C17_Witness ==
    /\ Len(messages) = 4
    /\ \A i \in DOMAIN messages : messages[i].conv = messages[1].conv
    /\ messages[2].role = "assistant"
    /\ messages[4].role = "assistant"
    /\ messages[4].content # messages[2].content
    /\ \E h \in Handlers : Len(hd[h].submission) = 4

\* a sequence without its i-th element
Without(seq, i) == SubSeq(seq, 1, i - 1) \o SubSeq(seq, i + 1, Len(seq))

NothingToSend(text, files) ==
    /\ Trim(text) = << >>
    /\ \A i \in DOMAIN files : ~NormalizeFile(files[i]).ok

C21_MessagesHaveConversation ==
    \A i \in DOMAIN messages : messages[i].conv \in DOMAIN conversations

\* a conversation is gone, and so is the first message ever inserted, while
\* a later message of another conversation is still stored
C21_Witness ==
    /\ messages # << >>
    /\ messages[1].turn > 1
    /\ \E c \in Convs : c \notin DOMAIN conversations

\* the title a first user message gives a conversation
ExpectedTitle(content) ==
    IF Len(content) > TitleLength
    THEN [i \in 1..(TitleLength + 3) |->
             IF i <= TitleLength THEN content[i] ELSE "."]
    ELSE content

\* the row an insert has added
Inserted == messages'[Len(messages')]

\* C22: an insert titles its conversation only when the row is the first of
\* the conversation, a user's, and the title is 'New Conversation': the
\* title is then the first 50 characters of the content, with '...' after
\* them when the content is longer; every other title stays as it is.
C22_AutoTitle ==
    [][Len(messages') = Len(messages) + 1 =>
          /\ DOMAIN conversations' = DOMAIN conversations
          /\ \A c \in DOMAIN conversations :
                conversations'[c].title =
                    IF /\ c = Inserted.conv
                       /\ \A i \in DOMAIN messages : messages[i].conv # c
                       /\ Inserted.role = "user"
                       /\ conversations[c].title = DefaultTitle
                    THEN ExpectedTitle(Inserted.content)
                    ELSE conversations[c].title]_vars

\* one conversation has the title of a long first message, another was
\* renamed before its first user message and keeps the name
C22_Witness ==
    /\ \E c \in DOMAIN conversations :
          conversations[c].title = X(TitleLength) \o Ellipsis
    /\ \E c \in DOMAIN conversations :
          /\ conversations[c].title = <<"r">>
          /\ \E i \in DOMAIN messages :
                messages[i].conv = c /\ messages[i].role = "user"

IsChunkCall(e) == e.cb = "onChunk"
IsTerminalCall(e) == e.cb \in {"onComplete", "onError"}

\* the fragments onChunk was called with, in order
ChunksOf(k) ==
    LET chunkCalls == SelectSeq(k.log, IsChunkCall)
    IN  [i \in DOMAIN chunkCalls |-> chunkCalls[i].content]

\* the events up to the first that carries the done flag
RECURSIVE UpToDone(_)
UpToDone(events) ==
    IF events = << >> THEN << >>
    ELSE IF JsonParse(Head(events)).done THEN <<Head(events)>>
    ELSE <<Head(events)>> \o UpToDone(Tail(events))

\* the fragments of the content events among `events`
SentFragments(events) ==
    LET IsContentEvent(json) ==
            ~JsonParse(json).error /\ JsonParse(json).content # << >>
        contentEvents == SelectSeq(events, IsContentEvent)
    IN  [i \in DOMAIN contentEvents |-> JsonParse(contentEvents[i]).content]

\* everything the server sent up to its done event has been read
ReadThrough(k) ==
    \/ k.pc = "read" /\ k.wire = << >>
    \/ /\ k.pc = "returned"
       /\ k.log # << >>
       /\ k.log[Len(k.log)].cb = "onComplete"

\* C23: sendMessageStream calls onChunk once for each content event, in
\* the order sent, however the bytes of the response are split into reads,
\* and the fragments received concatenate to the fragments sent.
C23_OnChunkPerContentEvent ==
    \A n \in DOMAIN calls :
        ReadThrough(calls[n]) =>
            /\ ChunksOf(calls[n]) = SentFragments(UpToDone(calls[n].sent))
            /\ calls[n].fullResponse =
                   Concat(SentFragments(UpToDone(calls[n].sent)))

\* C24: a call of sendMessageStream invokes one terminal callback, once,
\* onComplete or onError, whatever the server does, and no callback after
\* it.
C24_OneTerminalCallback ==
    \A n \in DOMAIN calls :
        LET log == calls[n].log
        IN  /\ Len(SelectSeq(log, IsTerminalCall)) <= 1
            /\ calls[n].pc = "returned" =>
                   Len(SelectSeq(log, IsTerminalCall)) = 1
            /\ \A i \in DOMAIN log : IsTerminalCall(log[i]) => i = Len(log)

\* C25: a turn started by handleSend leaves streaming: once the response of
\* every request has ended, in whatever way, and sendMessageStream has
\* returned, isStreaming is false and the input is enabled.
C25_StreamingEnds ==
    (/\ Len(calls) = client.nposts
     /\ \A n \in DOMAIN calls : calls[n].pc = "returned")
        => ~client.isStreaming

\* C29: after new-chat, select and delete in the sidebar, in any order,
\* the selected conversation id is null or the id of a conversation that
\* exists; after the selected conversation is deleted the selection no
\* longer refers to it, also when it was the only one.
C29_SelectionExists ==
    \/ client.conversationId = "none"
    \/ client.conversationId \in DOMAIN conversations

\* C26: the assistant reply joins only the message list of the
\* conversation its turn was sent in: when another conversation is
\* selected while the turn streams, the completion callback does not
\* append the reply to the list of the newly selected conversation.
C26_ReplyInOwnConversation ==
    ~client.loading =>
        \A i \in DOMAIN client.messages :
            client.messages[i].role = "assistant" =>
                client.messages[i].conv = client.conversationId

\* C27: every submission handed to onSend is posted, once, with its text
\* and all its files: files submitted with empty text are sent, and not
\* dropped while the input is cleared.
C27_SubmissionPosted ==
    client.nsubmitted > 0 =>
        /\ client.posted
        /\ client.nposts = client.nsubmitted
        /\ client.post.text = client.submitted.text
        /\ client.post.files = client.submitted.files

\* the terminal callback of the call has not run, and the call goes on
InFlight(k) ==
    k.pc # "returned" /\ SelectSeq(k.log, IsTerminalCall) = << >>

\* C28: a ChatInterface has at most one turn in flight: from handleSend to
\* the terminal callback of the turn the input is disabled, and no second
\* POST goes out, by the button, by Enter or after a transcription.
C28_OneTurnInFlight ==
    LET flying == {n \in DOMAIN calls : InFlight(calls[n])}
        unsent == client.nposts - Len(calls)
    IN  /\ Cardinality(flying) + unsent <= 1
        /\ Cardinality(flying) + unsent = 1 => client.isStreaming

\* C30: localStorage holds 'access_token' exactly when it holds 'user',
\* through signup, login, logout and 401 responses in any order, whether
\* the calls succeed or fail; after a logout and after an intercepted 401
\* both are absent and isAuthenticated() is false.
C30_TokenIffUser ==
    /\ "access_token" \in DOMAIN localStorage
          <=> "user" \in DOMAIN localStorage
    /\ (requests.last.kind = "logout" \/ requests.last.status = 401) =>
          /\ DOMAIN localStorage = {}
          /\ ~IsAuthenticated(localStorage)

\* a logout whose request failed found a session stored and left
\* localStorage empty
C30_Witness ==
    /\ requests.last.kind = "logout"
    /\ requests.last.status = 0
    /\ requests.last.had
    /\ DOMAIN localStorage = {}

====
